---------------------------- MODULE Spec2Model ----------------------------
(***************************************************************************)
(* Superheater thermal models (steamlib/platen_superheater.py and          *)
(* steamlib/final_superheater.py): geometry derivation at construction,    *)
(* load_yaml, calculate_properties and fopdt_step_response.                *)
(*                                                                         *)
(* Numbers.  The methods __post_init__ and calculate_properties only       *)
(* multiply and divide, so every quantity is an exact rational multiple of *)
(* a power of pi: [n, d, pi] stands for (n/d) * pi^pi.  Rounding of        *)
(* IEEE doubles is not modelled; the sign of a value, a zero divisor and   *)
(* the equality of two values computed the same way are.                   *)
(***************************************************************************)
EXTENDS Integers, Sequences, FiniteSets, TLC

RECURSIVE GCD(_, _)
GCD(a, b) ==
    IF b = 0 THEN a ELSE GCD(b, a % b)

Abs(i) ==
    IF i < 0 THEN -i ELSE i

\* (n/d) * pi^p in lowest terms with a positive denominator; zero is 0/1.
Norm(n, d, p) ==
    IF n = 0 THEN [n |-> 0, d |-> 1, pi |-> 0]
    ELSE LET g == GCD(Abs(n), Abs(d))
             s == IF d < 0 THEN -1 ELSE 1
         IN  [n |-> s * (n \div g), d |-> s * (d \div g), pi |-> p]

Num(i) ==
    Norm(i, 1, 0)

Frac(i, j) ==
    Norm(i, j, 0)

\* np.pi
Pi ==
    [n |-> 1, d |-> 1, pi |-> 1]

\* (n1/d1) * (n2/d2) * pi^p, the common factors cancelled before multiplying
Prod(n1, d1, n2, d2, p) ==
    IF n1 = 0 \/ n2 = 0 THEN Norm(0, 1, 0)
    ELSE LET g1 == GCD(Abs(n1), Abs(d2))
             g2 == GCD(Abs(n2), Abs(d1))
         IN  Norm((n1 \div g1) * (n2 \div g2), (d1 \div g2) * (d2 \div g1), p)

Mul(a, b) ==
    Prod(a.n, a.d, b.n, b.d, a.pi + b.pi)

\* a / b for b # 0 (the callers raise ZeroDivisionError on b = 0)
Div(a, b) ==
    Prod(a.n, a.d, b.d, b.n, a.pi - b.pi)

IsZero(a) ==
    a.n = 0

IsPos(a) ==
    a.n > 0

(***************************************************************************)
(* The two classes.  They have the same fields (n_panels/tubes_per_panel/  *)
(* passes_per_panel are called n_coils/tubes_per_coil/passes_per_coil in   *)
(* FinalSuperheater) and differ in their defaults.                         *)
(***************************************************************************)
Classes ==
    {"PlatenSuperheater", "FinalSuperheater"}

\* the dataclass defaults
Defaults(cls) ==
    IF cls = "PlatenSuperheater"
    THEN [config_file |-> "config/platen_superheater.yaml",
          n_panels |-> 43, tubes_per_panel |-> 4, passes_per_panel |-> 8,
          pass_length_m |-> 6, total_length_m |-> 50,
          tube_od_mm |-> 57, tube_id_mm |-> 41,
          U_W_m2K_low_load |-> 800,
          setpoint_inlet_C |-> 350, setpoint_outlet_C |-> 410]
    ELSE [config_file |-> "config/final_superheater.yaml",
          n_panels |-> 43, tubes_per_panel |-> 4, passes_per_panel |-> 13,
          pass_length_m |-> 6, total_length_m |-> 85,
          tube_od_mm |-> 57, tube_id_mm |-> 41,
          U_W_m2K_low_load |-> 900,
          setpoint_inlet_C |-> 410, setpoint_outlet_C |-> 540]

\* Arguments a caller passes: the defaults, or one of the two diameters (the
\* only numeric fields load_yaml leaves as constructed) set to zero.
CtorArgs(cls) ==
    {Defaults(cls),
     [Defaults(cls) EXCEPT !.tube_od_mm = 0],
     [Defaults(cls) EXCEPT !.tube_id_mm = 0]}

\* the file that agrees with the defaults of the class
DefaultConfig(cls) ==
    [n_panels |-> Defaults(cls).n_panels,
     tubes_per_panel |-> Defaults(cls).tubes_per_panel,
     passes_per_panel |-> Defaults(cls).passes_per_panel,
     pass_length_m |-> Defaults(cls).pass_length_m,
     total_length_m |-> Defaults(cls).total_length_m,
     U_W_m2K_low_load |-> Defaults(cls).U_W_m2K_low_load,
     setpoint_inlet_C |-> Defaults(cls).setpoint_inlet_C,
     setpoint_outlet_C |-> Defaults(cls).setpoint_outlet_C,
     sections |-> "T91"]

\* Contents of the configuration file: the 'structure' and 'thermal' keys
\* load_yaml reads and the opaque 'sections' list.  The file is not
\* validated, so a count, a length or a coefficient may be zero or negative.
YamlConfigs(cls) ==
    {DefaultConfig(cls)}
    \cup {[DefaultConfig(cls) EXCEPT !.n_panels = n] : n \in {0, 86}}
    \cup {[DefaultConfig(cls) EXCEPT !.total_length_m = len] : len \in {0, 60}}
    \cup {[DefaultConfig(cls) EXCEPT !.U_W_m2K_low_load = u] : u \in {-800, 0}}

\* load_yaml: overwrite the structure and thermal fields from the file.
\* tube_od_mm, tube_id_mm and the derived geometry are not touched.
load_yaml(self, config) ==
    [self EXCEPT !.n_panels = config.n_panels,
                 !.tubes_per_panel = config.tubes_per_panel,
                 !.passes_per_panel = config.passes_per_panel,
                 !.pass_length_m = config.pass_length_m,
                 !.total_length_m = config.total_length_m,
                 !.U_W_m2K_low_load = config.U_W_m2K_low_load,
                 !.setpoint_inlet_C = config.setpoint_inlet_C,
                 !.setpoint_outlet_C = config.setpoint_outlet_C,
                 !.sections = config.sections]

total_tube_count(self) ==
    self.n_panels * self.tubes_per_panel

\* cross_section_m2 with the diameter taken for the radius
cross_section_of_diameter(self) ==
    Mul(Pi, Mul(Frac(self.tube_id_mm, 1000), Frac(self.tube_id_mm, 1000)))

\* np.pi * (tube_id_mm / 2000) ** 2
cross_section_m2(self) ==
    Mul(Pi, Mul(Frac(self.tube_id_mm, 2000), Frac(self.tube_id_mm, 2000)))

a_total_m2(self) ==
    Mul(Num(total_tube_count(self)), cross_section_m2(self))

\* np.pi * (tube_od_mm / 1000) * total_length_m * total_tube_count
outer_surface_m2(self) ==
    Mul(Mul(Mul(Pi, Frac(self.tube_od_mm, 1000)), Num(self.total_length_m)),
        Num(total_tube_count(self)))

\* The four attributes __post_init__ derives from the fields of self.
DerivedGeometry(self) ==
    [total_tube_count |-> total_tube_count(self),
     cross_section_m2 |-> cross_section_m2(self),
     a_total_m2 |-> a_total_m2(self),
     outer_surface_m2 |-> outer_surface_m2(self)]

\* __init__ generated by @dataclass followed by __post_init__: the fields
\* from the arguments, load_yaml, then the geometry from the loaded fields.
post_init(cls, args, config) ==
    LET fields == [cls |-> cls, sections |-> "unset",
                   config_file |-> args.config_file,
                   n_panels |-> args.n_panels,
                   tubes_per_panel |-> args.tubes_per_panel,
                   passes_per_panel |-> args.passes_per_panel,
                   pass_length_m |-> args.pass_length_m,
                   total_length_m |-> args.total_length_m,
                   tube_od_mm |-> args.tube_od_mm,
                   tube_id_mm |-> args.tube_id_mm,
                   U_W_m2K_low_load |-> args.U_W_m2K_low_load,
                   setpoint_inlet_C |-> args.setpoint_inlet_C,
                   setpoint_outlet_C |-> args.setpoint_outlet_C]
        loaded == load_yaml(fields, config)
    IN  [spec |-> loaded, geom |-> DerivedGeometry(loaded)]


(***************************************************************************)
(* The steam-property provider (pyXSteam.XSteam) is an external library.   *)
(* It is a stateless function of its two arguments; which function it is   *)
(* is left open: steam is one of Providers for the whole behaviour.        *)
(***************************************************************************)
Pressures ==
    {40}

Temperatures ==
    {350, 410}

Flows ==
    {-200, 0, 3, 200}

\* the (t_c, p_mpa) argument pairs of line 52 and 54
ArgsTP ==
    {<<Num(t), Frac(p, 10)>> : t \in Temperatures, p \in Pressures}

\* the (p_mpa, t_c) argument pairs of line 53
ArgsPT ==
    {<<Frac(p, 10), Num(t)>> : t \in Temperatures, p \in Pressures}

\* what the provider answers at one (pressure, temperature): a plausible
\* superheated state, or a value outside the physical range
Superheated ==
    [cp |-> Frac(5, 2), tpv |-> Frac(1, 16)]

SteamStates ==
    {Superheated,
     [cp |-> Num(0), tpv |-> Frac(1, 16)],
     [cp |-> Frac(5, 2), tpv |-> Num(0)],
     [cp |-> Frac(5, 2), tpv |-> Frac(-1, 16)]}

Providers ==
    {[t_ph |-> [a \in ArgsTP |-> Num(250)],
      Cp_pt |-> [a \in ArgsPT |-> st[a[2].n].cp],
      t_pv |-> [a \in ArgsTP |-> st[a[1].n].tpv]] :
        st \in {f \in [Temperatures -> SteamStates] :
                    Cardinality({t \in Temperatures : f[t] # Superheated}) <= 1}}

Raised(exc, line) ==
    [status |-> exc, line |-> line]

Returned(value) ==
    [status |-> "returned", value |-> value]

\* calculate_properties with the flow converted by a floor division (//)
calculate_properties_floordiv(self, xs, p_bar, t_c, steam_flow_th) ==
    LET p_mpa == Frac(p_bar, 10)
        h_kjkg == xs.t_ph[<<Num(t_c), p_mpa>>]
        cp_kjkgk == xs.Cp_pt[<<p_mpa, Num(t_c)>>]
        tpv == xs.t_pv[<<Num(t_c), p_mpa>>]
    IN  IF IsZero(tpv) THEN Raised("ZeroDivisionError", 54) ELSE
    LET rho_kgm3 == Div(Num(1), tpv)
        m_kgs == Num((steam_flow_th * 1000) \div 3600)
        area == Mul(rho_kgm3, self.geom.a_total_m2)
    IN  IF IsZero(area) THEN Raised("ZeroDivisionError", 56) ELSE
    LET v_ms == Div(m_kgs, area)
    IN  IF IsZero(v_ms) THEN Raised("ZeroDivisionError", 57) ELSE
    LET theta_s == Div(Num(self.spec.total_length_m), v_ms)
        v_total_m3 == Mul(self.geom.a_total_m2, Num(self.spec.total_length_m))
        m_kg == Mul(rho_kgm3, v_total_m3)
        c_th_jk == Mul(m_kg, Mul(cp_kjkgk, Num(1000)))
        ua_wk == Mul(Num(self.spec.U_W_m2K_low_load), self.geom.outer_surface_m2)
    IN  IF IsZero(ua_wk) THEN Raised("ZeroDivisionError", 62) ELSE
    LET tau_s == Div(c_th_jk, ua_wk)
    IN  Returned([rho |-> rho_kgm3, cp |-> cp_kjkgk, v |-> v_ms,
                  theta_s |-> theta_s, tau_s |-> tau_s, h |-> h_kjkg,
                  m_kg |-> m_kg, c_th_jk |-> c_th_jk, ua_wk |-> ua_wk])

\* calculate_properties, lines 50-66.  A Python float division by zero
\* raises ZeroDivisionError at the line of the division.
calculate_properties(self, xs, p_bar, t_c, steam_flow_th) ==
    LET p_mpa == Frac(p_bar, 10)
        h_kjkg == xs.t_ph[<<Num(t_c), p_mpa>>]
        cp_kjkgk == xs.Cp_pt[<<p_mpa, Num(t_c)>>]
        tpv == xs.t_pv[<<Num(t_c), p_mpa>>]
    IN  IF IsZero(tpv) THEN Raised("ZeroDivisionError", 54) ELSE
    LET rho_kgm3 == Div(Num(1), tpv)
        m_kgs == Div(Mul(Num(steam_flow_th), Num(1000)), Num(3600))
        area == Mul(rho_kgm3, self.geom.a_total_m2)
    IN  IF IsZero(area) THEN Raised("ZeroDivisionError", 56) ELSE
    LET v_ms == Div(m_kgs, area)
    IN  IF IsZero(v_ms) THEN Raised("ZeroDivisionError", 57) ELSE
    LET theta_s == Div(Num(self.spec.total_length_m), v_ms)
        v_total_m3 == Mul(self.geom.a_total_m2, Num(self.spec.total_length_m))
        m_kg == Mul(rho_kgm3, v_total_m3)
        c_th_jk == Mul(m_kg, Mul(cp_kjkgk, Num(1000)))
        ua_wk == Mul(Num(self.spec.U_W_m2K_low_load), self.geom.outer_surface_m2)
    IN  IF IsZero(ua_wk) THEN Raised("ZeroDivisionError", 62) ELSE
    LET tau_s == Div(c_th_jk, ua_wk)
    IN  Returned([rho |-> rho_kgm3, cp |-> cp_kjkgk, v |-> v_ms,
                  theta_s |-> theta_s, tau_s |-> tau_s, h |-> h_kjkg,
                  m_kg |-> m_kg, c_th_jk |-> c_th_jk, ua_wk |-> ua_wk])

(***************************************************************************)
(* fopdt_step_response.  Times, theta_s and tau_s are whole seconds, a     *)
(* gain is a whole number of tenths, and a response is a whole number of   *)
(* 1/(KScale*ExpScale): k * (1 - exp(..)) is then an exact integer, and    *)
(* the only rounding is the one of np.exp, to 1/ExpScale.                  *)
(***************************************************************************)
KScale ==
    10

ExpScale ==
    1000

\* ExpTable[m + 1] = floor(ExpScale * e^(-m / TableStep))
TableStep ==
    12

ExpTable ==
    << 1000, 920, 846, 778, 716, 659, 606, 558, 513, 472, 434, 399,
       367, 338, 311, 286, 263, 242, 223, 205, 188, 173, 159, 147,
       135, 124, 114, 105, 96, 89, 82, 75, 69, 63, 58, 54,
       49, 45, 42, 38, 35, 32, 30, 27, 25, 23, 21, 19,
       18, 16, 15, 14, 13, 12, 11, 10, 9, 8, 7, 7,
       6, 6, 5, 5, 4, 4, 4, 3, 3, 3, 2, 2,
       2, 2, 2, 1, 1, 1, 1, 1, 1, 1, 1 >>

\* np.exp(-(num) / den) for num > 0 and den >= 0, den a divisor of TableStep.
\* A NumPy scalar divided by zero is -inf (with a RuntimeWarning, no
\* exception), and np.exp(-inf) is 0.0; past the table the value rounds to 0.
np_exp_neg(num, den) ==
    IF den = 0 THEN 0
    ELSE LET m == (num * TableStep) \div den
         IN  IF m + 1 > Len(ExpTable) THEN 0 ELSE ExpTable[m + 1]

\* y[i] = value: the element takes the dtype of y, which np.zeros_like(t)
\* copies from t; an integer array keeps the value truncated toward zero.
setitem(dtype, value) ==
    IF dtype = "float64" THEN value
    ELSE LET one == KScale * ExpScale
         IN  IF value < 0 THEN -(((-value) \div one) * one)
             ELSE (value \div one) * one

DefaultK(cls) ==
    IF cls = "PlatenSuperheater" THEN 6 ELSE 7

\* the value of a parameter of a call: the one passed, or the default
Param(call, name, default) ==
    IF name \in call.omitted THEN default ELSE call[name]

\* Platen_fopdt_step_response with the "1 -" of line 73 left out
Platen_fopdt_decaying(call) ==
    LET t == call.t
        k == Param(call, "k", 6)
        theta_s == Param(call, "theta_s", 0)
        tau_s == Param(call, "tau_s", 0)
    IN  Returned([i \in 1..Len(t) |->
            IF t[i] > theta_s
            THEN setitem(call.dtype, k * np_exp_neg(t[i] - theta_s, tau_s))
            ELSE 0])

\* PlatenSuperheater.fopdt_step_response(t, k=0.6, theta_s=0, tau_s=0)
Platen_fopdt_step_response(call) ==
    LET t == call.t
        k == Param(call, "k", 6)
        theta_s == Param(call, "theta_s", 0)
        tau_s == Param(call, "tau_s", 0)
    IN  Returned([i \in 1..Len(t) |->
            IF t[i] > theta_s
            THEN setitem(call.dtype, k * (ExpScale - np_exp_neg(t[i] - theta_s, tau_s)))
            ELSE 0])

\* Final_fopdt_step_response with the delay left out of the exponent
Final_fopdt_no_delay(call) ==
    LET t == call.t
        k == Param(call, "k", 7)
        theta_s == Param(call, "theta_s", 0)
        tau_s == Param(call, "tau_s", 0)
    IN  Returned([i \in 1..Len(t) |->
            IF t[i] > theta_s
            THEN setitem(call.dtype, k * (ExpScale - np_exp_neg(t[i], tau_s)))
            ELSE 0])

\* FinalSuperheater.fopdt_step_response(t, k=0.7, theta_s=0, tau_s=0)
Final_fopdt_step_response(call) ==
    LET t == call.t
        k == Param(call, "k", 7)
        theta_s == Param(call, "theta_s", 0)
        tau_s == Param(call, "tau_s", 0)
    IN  Returned([i \in 1..Len(t) |->
            IF t[i] > theta_s
            THEN setitem(call.dtype, k * (ExpScale - np_exp_neg(t[i] - theta_s, tau_s)))
            ELSE 0])

\* Bounds of the calls of fopdt_step_response
MaxLen ==
    2

MaxSample ==
    4

TimeStep ==
    2

MaxTheta ==
    2

TimeVals ==
    {i * TimeStep : i \in 0..MaxSample}

TimeSeqs ==
    UNION {[1..n -> TimeVals] : n \in 0..MaxLen}

KVals ==
    {-6, 0, 6, 15}

TauVals ==
    {0, 1, 2, 3}

FopdtCalls ==
    {[t |-> t, dtype |-> dt, omitted |-> om,
      k |-> IF "k" \in om THEN 0 ELSE k,
      theta_s |-> IF "theta_s" \in om THEN 0 ELSE th,
      tau_s |-> IF "tau_s" \in om THEN 0 ELSE tau] :
        t \in TimeSeqs, dt \in {"int64", "float64"},
        om \in SUBSET {"k", "theta_s", "tau_s"},
        k \in KVals, th \in 0..MaxTheta, tau \in TauVals}

(***************************************************************************)
(* State.                                                                  *)
(*   unit    the constructed object (fields and cached geometry) or NoUnit *)
(*   steam   the steam-property provider                                   *)
(*   ret     what the latest call on the unit did: its name, its arguments *)
(*           and its outcome                                               *)
(*   fcall   the arguments of a call of fopdt_step_response                *)
(*   yPlaten, yFinal  what the method of each class did on fcall           *)
(*   thr     the calls of calculate_properties in progress, one per thread: *)
(*           the line the thread is at, its arguments, its local variables  *)
(*           and its outcome                                               *)
(***************************************************************************)
VARIABLES unit, steam, ret, fcall, yPlaten, yFinal, thr

NoUnit ==
    [spec |-> "none"]

NoCall ==
    [op |-> "none"]

NotCalled ==
    [status |-> "not called"]

vars ==
    <<unit, steam, ret, fcall, yPlaten, yFinal, thr>>

fvars ==
    <<fcall, yPlaten, yFinal, thr>>

NumThreads ==
    2

Threads ==
    1..NumThreads

NoLocals ==
    [h_kjkg |-> Num(0), cp_kjkgk |-> Num(0), rho_kgm3 |-> Num(0),
     m_kgs |-> Num(0), v_ms |-> Num(0), theta_s |-> Num(0),
     m_kg |-> Num(0), c_th_jk |-> Num(0), ua_wk |-> Num(0)]

Idle ==
    [pc |-> "idle", p_bar |-> 0, t_c |-> 0, steam_flow_th |-> 0,
     loc |-> NoLocals, out |-> NotCalled]

NoThreads ==
    thr = [th \in Threads |-> Idle]

NoFopdt ==
    /\ fcall = [t |-> << >>, dtype |-> "float64", omitted |-> {},
                k |-> 6, theta_s |-> 0, tau_s |-> 1]
    /\ yPlaten = NotCalled
    /\ yFinal = NotCalled

Init ==
    /\ unit = NoUnit
    /\ steam \in Providers
    /\ ret = NoCall
    /\ NoFopdt
    /\ NoThreads

\* PlatenSuperheater(...) / FinalSuperheater(...): the object the behaviour
\* follows is constructed once
Construct(cls, args, config) ==
    /\ unit = NoUnit
    /\ unit' = post_init(cls, args, config)
    /\ ret' = [op |-> "__init__", out |-> Returned("self")]
    /\ UNCHANGED <<steam, fvars>>

\* unit.load_yaml() called again; the file may have been rewritten
LoadYaml(cls, config) ==
    /\ unit # NoUnit
    /\ unit.spec.cls = cls
    /\ unit' = [unit EXCEPT !.spec = load_yaml(@, config)]
    /\ ret' = [op |-> "load_yaml", out |-> Returned("None")]
    /\ UNCHANGED <<steam, fvars>>

CalculateProperties(p_bar, t_c, steam_flow_th) ==
    /\ unit # NoUnit
    /\ ret' = [op |-> "calculate_properties",
               p_bar |-> p_bar, t_c |-> t_c, steam_flow_th |-> steam_flow_th,
               out |-> calculate_properties(unit, steam, p_bar, t_c, steam_flow_th)]
    /\ UNCHANGED <<unit, steam, fvars>>

Next ==
    \/ \E cls \in Classes : \E args \in CtorArgs(cls), config \in YamlConfigs(cls) :
          Construct(cls, args, config)
    \/ \E cls \in Classes : \E config \in YamlConfigs(cls) : LoadYaml(cls, config)
    \/ \E p \in Pressures, t \in Temperatures, f \in Flows : CalculateProperties(p, t, f)

Spec ==
    Init /\ [][Next]_vars

(***************************************************************************)
(* fopdt_step_response is a pure function of its arguments (it reads no    *)
(* field of self): the arguments are drawn at the start and the method of  *)
(* each class is applied to them.                                          *)
(***************************************************************************)
InitFopdt ==
    /\ unit = NoUnit
    /\ steam = CHOOSE xs \in Providers : TRUE
    /\ ret = NoCall
    /\ fcall \in FopdtCalls
    /\ yPlaten = NotCalled
    /\ yFinal = NotCalled
    /\ NoThreads

PlatenFopdt ==
    /\ yPlaten = NotCalled
    /\ yPlaten' = Platen_fopdt_step_response(fcall)
    /\ UNCHANGED <<unit, steam, ret, fcall, yFinal, thr>>

FinalFopdt ==
    /\ yFinal = NotCalled
    /\ yFinal' = Final_fopdt_step_response(fcall)
    /\ UNCHANGED <<unit, steam, ret, fcall, yPlaten, thr>>

NextFopdt ==
    \/ PlatenFopdt
    \/ FinalFopdt

SpecFopdt ==
    InitFopdt /\ [][NextFopdt]_vars


(***************************************************************************)
(* Concurrent calls of calculate_properties on one unit.  A thread runs    *)
(* the method line by line; a step is a run of lines that reads the        *)
(* attributes of self at most in one statement.                            *)
(***************************************************************************)
ConcFlows ==
    {0, 200}

\* the units the threads share: each class constructed from its defaults
\* and from a file with another length
ConcUnits ==
    UNION {{post_init(cls, Defaults(cls), DefaultConfig(cls)),
            post_init(cls, Defaults(cls), [DefaultConfig(cls) EXCEPT !.total_length_m = 60])} :
                cls \in Classes}

InitConc ==
    /\ unit \in ConcUnits
    /\ steam \in Providers
    /\ ret = NoCall
    /\ fcall = [t |-> << >>, dtype |-> "float64", omitted |-> {},
                k |-> 6, theta_s |-> 0, tau_s |-> 1]
    /\ yPlaten = NotCalled
    /\ yFinal = NotCalled
    /\ NoThreads

Goto(th, line, loc) ==
    thr' = [thr EXCEPT ![th].pc = line, ![th].loc = loc]

Finish(th, out) ==
    thr' = [thr EXCEPT ![th].pc = "done", ![th].out = out]

\* lines 50-55: the provider is queried and the flow converted; no
\* attribute of self is read
Call(th, p_bar, t_c, steam_flow_th) ==
    /\ thr[th].pc = "idle"
    /\ LET p_mpa == Frac(p_bar, 10)
           tpv == steam.t_pv[<<Num(t_c), p_mpa>>]
           me == [thr[th] EXCEPT !.p_bar = p_bar, !.t_c = t_c,
                                 !.steam_flow_th = steam_flow_th]
       IN  IF IsZero(tpv)
           THEN thr' = [thr EXCEPT ![th] =
                    [me EXCEPT !.pc = "done", !.out = Raised("ZeroDivisionError", 54)]]
           ELSE thr' = [thr EXCEPT ![th] =
                    [me EXCEPT !.pc = "l56",
                        !.loc.h_kjkg = steam.t_ph[<<Num(t_c), p_mpa>>],
                        !.loc.cp_kjkgk = steam.Cp_pt[<<p_mpa, Num(t_c)>>],
                        !.loc.rho_kgm3 = Div(Num(1), tpv),
                        !.loc.m_kgs = Div(Mul(Num(steam_flow_th), Num(1000)), Num(3600))]]
    /\ UNCHANGED <<unit, steam, ret, fcall, yPlaten, yFinal>>

\* Line56 with the density folded into the cached flow area of self
Line56_inplace(th) ==
    /\ thr[th].pc = "l56"
    /\ LET loc == thr[th].loc
           area == Mul(loc.rho_kgm3, unit.geom.a_total_m2)
       IN  /\ unit' = [unit EXCEPT !.geom.a_total_m2 = area]
           /\ IF IsZero(area) THEN Finish(th, Raised("ZeroDivisionError", 56))
              ELSE Goto(th, "l57", [loc EXCEPT !.v_ms = Div(loc.m_kgs, area)])
    /\ UNCHANGED <<steam, ret, fcall, yPlaten, yFinal>>

\* line 56: v_ms = m_kgs / (rho_kgm3 * self.a_total_m2)
Line56(th) ==
    /\ thr[th].pc = "l56"
    /\ LET loc == thr[th].loc
           area == Mul(loc.rho_kgm3, unit.geom.a_total_m2)
       IN  IF IsZero(area) THEN Finish(th, Raised("ZeroDivisionError", 56))
           ELSE Goto(th, "l57", [loc EXCEPT !.v_ms = Div(loc.m_kgs, area)])
    /\ UNCHANGED <<unit, steam, ret, fcall, yPlaten, yFinal>>

\* line 57: theta_s = self.total_length_m / v_ms
Line57(th) ==
    /\ thr[th].pc = "l57"
    /\ LET loc == thr[th].loc
       IN  IF IsZero(loc.v_ms) THEN Finish(th, Raised("ZeroDivisionError", 57))
           ELSE Goto(th, "l58",
                     [loc EXCEPT !.theta_s = Div(Num(unit.spec.total_length_m), loc.v_ms)])
    /\ UNCHANGED <<unit, steam, ret, fcall, yPlaten, yFinal>>

\* lines 58-60: v_total_m3 = self.a_total_m2 * self.total_length_m, then
\* m_kg and c_th_jk from the locals
Line58(th) ==
    /\ thr[th].pc = "l58"
    /\ LET loc == thr[th].loc
           v_total_m3 == Mul(unit.geom.a_total_m2, Num(unit.spec.total_length_m))
           m_kg == Mul(loc.rho_kgm3, v_total_m3)
       IN  Goto(th, "l61",
                [loc EXCEPT !.m_kg = m_kg,
                            !.c_th_jk = Mul(m_kg, Mul(loc.cp_kjkgk, Num(1000)))])
    /\ UNCHANGED <<unit, steam, ret, fcall, yPlaten, yFinal>>

\* line 61: ua_wk = self.U_W_m2K_low_load * self.outer_surface_m2
Line61(th) ==
    /\ thr[th].pc = "l61"
    /\ Goto(th, "l62",
            [thr[th].loc EXCEPT !.ua_wk =
                Mul(Num(unit.spec.U_W_m2K_low_load), unit.geom.outer_surface_m2)])
    /\ UNCHANGED <<unit, steam, ret, fcall, yPlaten, yFinal>>

\* lines 62-66: tau_s = c_th_jk / ua_wk and the result dictionary
Line62(th) ==
    /\ thr[th].pc = "l62"
    /\ LET loc == thr[th].loc
       IN  IF IsZero(loc.ua_wk) THEN Finish(th, Raised("ZeroDivisionError", 62))
           ELSE Finish(th, Returned(
                    [rho |-> loc.rho_kgm3, cp |-> loc.cp_kjkgk, v |-> loc.v_ms,
                     theta_s |-> loc.theta_s, tau_s |-> Div(loc.c_th_jk, loc.ua_wk),
                     h |-> loc.h_kjkg, m_kg |-> loc.m_kg, c_th_jk |-> loc.c_th_jk,
                     ua_wk |-> loc.ua_wk]))
    /\ UNCHANGED <<unit, steam, ret, fcall, yPlaten, yFinal>>

\* the caller has taken the outcome; the thread may call again
Return(th) ==
    /\ thr[th].pc = "done"
    /\ thr' = [thr EXCEPT ![th] = Idle]
    /\ UNCHANGED <<unit, steam, ret, fcall, yPlaten, yFinal>>

NextConc ==
    \/ \E th \in Threads : \E p \in Pressures, t \in Temperatures, f \in ConcFlows :
          Call(th, p, t, f)
    \/ \E th \in Threads : Line56(th)
    \/ \E th \in Threads : Line57(th)
    \/ \E th \in Threads : Line58(th)
    \/ \E th \in Threads : Line61(th)
    \/ \E th \in Threads : Line62(th)
    \/ \E th \in Threads : Return(th)

SpecConc ==
    InitConc /\ [][NextConc]_vars

\* C7: under any interleaving of concurrent calls on one unit each call
\* returns what it returns when run alone, so two calls with the same
\* operating point return the same; no call has changed the unit.
C7_CallsAreIndependent ==
    /\ unit \in ConcUnits
    /\ \A th \in Threads :
          thr[th].pc = "done" =>
              thr[th].out = calculate_properties(unit, steam, thr[th].p_bar,
                                                 thr[th].t_c, thr[th].steam_flow_th)
    /\ \A a, b \in Threads :
          (/\ thr[a].pc = "done" /\ thr[b].pc = "done"
           /\ thr[a].p_bar = thr[b].p_bar /\ thr[a].t_c = thr[b].t_c
           /\ thr[a].steam_flow_th = thr[b].steam_flow_th) =>
              thr[a].out = thr[b].out

\* one call has returned a result while another is between two reads of self
C7_Witness ==
    \E a, b \in Threads :
        /\ thr[a].pc = "done" /\ thr[a].out.status = "returned"
        /\ thr[b].pc = "l58"
        /\ thr[a].t_c # thr[b].t_c

(***************************************************************************)
(* Properties of fopdt_step_response (checked under SpecFopdt).            *)
(***************************************************************************)
\* what the method of class cls did on fcall
Outcome(cls) ==
    IF cls = "PlatenSuperheater" THEN yPlaten ELSE yFinal

\* the parameters of fcall as the method of class cls receives them
GainOf(cls) ==
    Param(fcall, "k", DefaultK(cls))

DelayOf ==
    Param(fcall, "theta_s", 0)

TimeConstantOf ==
    Param(fcall, "tau_s", 0)

\* k * (1 - exp(-(ti - theta_s)/tau_s)) past the delay, 0 up to it
Fopdt(k, ti) ==
    IF ti <= DelayOf THEN 0
    ELSE k * (ExpScale - np_exp_neg(ti - DelayOf, TimeConstantOf))

Ascending(t) ==
    \A i, j \in 1..Len(t) : i < j => t[i] <= t[j]

\* C1: for theta_s >= 0 and tau_s > 0 the method returns a sequence as long
\* as t whose i-th element is 0 when t[i] <= theta_s and
\* k * (1 - exp(-(t[i] - theta_s)/tau_s)) when t[i] > theta_s.
C1_ResponseIsFopdtFormula ==
    \A cls \in Classes :
        (Outcome(cls) # NotCalled /\ DelayOf >= 0 /\ TimeConstantOf > 0) =>
            /\ Outcome(cls).status = "returned"
            /\ Len(Outcome(cls).value) = Len(fcall.t)
            /\ \A i \in 1..Len(fcall.t) :
                  Outcome(cls).value[i] = Fopdt(GainOf(cls), fcall.t[i])

\* C2: a call with tau_s = 0, passed or left at its default, fails with
\* InvalidParameterError and returns no response sequence.
C2_ZeroTauIsRejected ==
    \A cls \in Classes :
        (Outcome(cls) # NotCalled /\ TimeConstantOf = 0) =>
            Outcome(cls).status = "InvalidParameterError"

\* C8: the methods of the two classes are the same evaluator: with k passed
\* they return the same sequence, and with k left at its default (0.6 and
\* 0.7) the two responses differ by the gain factor only, Platen/0.6 =
\* Final/0.7 at every sample.
C8_SameEvaluator ==
    (yPlaten # NotCalled /\ yFinal # NotCalled) =>
        /\ yPlaten.status = yFinal.status
        /\ Len(yPlaten.value) = Len(yFinal.value)
        /\ "k" \notin fcall.omitted => yPlaten.value = yFinal.value
        /\ "k" \in fcall.omitted =>
              \A i \in 1..Len(yPlaten.value) :
                  yPlaten.value[i] * DefaultK("FinalSuperheater")
                      = yFinal.value[i] * DefaultK("PlatenSuperheater")

\* both methods were called with the default gains and a delay, and the
\* response has risen
C8_Witness ==
    /\ yPlaten # NotCalled /\ yFinal # NotCalled
    /\ "k" \in fcall.omitted
    /\ DelayOf > 0
    /\ \E i \in 1..Len(yPlaten.value) :
          yPlaten.value[i] > 0 /\ yFinal.value[i] > yPlaten.value[i]

\* the response over the samples past the delay never decreases and never
\* exceeds k
RisesTowardGain(cls) ==
    LET y == Outcome(cls).value
        t == fcall.t
    IN  /\ \A i, j \in 1..Len(t) :
              (i < j /\ t[i] > DelayOf) => y[i] <= y[j]
        /\ \A i \in 1..Len(t) :
              t[i] > DelayOf => y[i] <= GainOf(cls) * ExpScale

\* C9 as stated: for every ascending t, every gain k, theta_s >= 0 and
\* tau_s > 0 the response is non-decreasing past the delay and does not
\* exceed k.
C9_MonotoneForEveryGain ==
    \A cls \in Classes :
        (/\ Outcome(cls) # NotCalled
         /\ Ascending(fcall.t) /\ DelayOf >= 0 /\ TimeConstantOf > 0) =>
            RisesTowardGain(cls)

\* C9 amended: the same for every gain k >= 0.
C9_MonotoneForNonNegativeGain ==
    \A cls \in Classes :
        (/\ Outcome(cls) # NotCalled
         /\ Ascending(fcall.t) /\ DelayOf >= 0 /\ TimeConstantOf > 0
         /\ GainOf(cls) >= 0) =>
            RisesTowardGain(cls)

\* a positive gain, two samples past the delay, and the response rose
\* between them
C9_Witness ==
    /\ yPlaten # NotCalled
    /\ Ascending(fcall.t) /\ TimeConstantOf > 0
    /\ GainOf("PlatenSuperheater") > 0
    /\ Len(fcall.t) = 2
    /\ fcall.t[1] > DelayOf
    /\ yPlaten.value[1] > 0
    /\ yPlaten.value[1] < yPlaten.value[2]


(***************************************************************************)
(* Properties of construction, load_yaml and calculate_properties          *)
(* (checked under Spec).                                                   *)
(***************************************************************************)
\* the structural constants of a valid spec: positive diameters and
\* lengths, at least one tube
ValidSpec(s) ==
    /\ s.tube_od_mm > 0
    /\ s.tube_id_mm > 0
    /\ s.total_length_m > 0
    /\ s.pass_length_m > 0
    /\ s.n_panels >= 1
    /\ s.tubes_per_panel >= 1

Constructed ==
    ret.op = "__init__" /\ ret.out.status = "returned"

Evaluated ==
    ret.op = "calculate_properties"

\* what the provider answers for the operating point of the latest call
ResolvedVolume ==
    steam.t_pv[<<Num(ret.t_c), Frac(ret.p_bar, 10)>>]

ResolvedCp ==
    steam.Cp_pt[<<Frac(ret.p_bar, 10), Num(ret.t_c)>>]

\* C3: calculate_properties fails with InvalidOperatingPointError whenever
\* steam_flow_th <= 0 or the resolved density is <= 0, and returns no
\* result then.
C3_NonPositiveVelocityIsRejected ==
    (Evaluated /\ (ret.steam_flow_th <= 0 \/ ~IsPos(ResolvedVolume))) =>
        ret.out.status = "InvalidOperatingPointError"

\* C4: constructing a unit from a non-positive diameter or length or a tube
\* count below 1 fails with InvalidGeometryError; no constructed unit holds
\* geometry derived from such constants.
C4_InvalidGeometryIsRejected ==
    /\ (ret.op = "__init__" /\ ~ValidSpec(unit.spec)) =>
          ret.out.status = "InvalidGeometryError"
    /\ Constructed => ValidSpec(unit.spec)

\* a unit with valid geometry: valid structural constants, and the cached
\* geometry is the one derived from them
HasValidGeometry ==
    /\ ValidSpec(unit.spec)
    /\ unit.geom = DerivedGeometry(unit.spec)

PositiveDynamics ==
    /\ ret.out.status = "returned"
    /\ IsPos(ret.out.value.v)
    /\ IsPos(ret.out.value.theta_s)
    /\ IsPos(ret.out.value.tau_s)

\* C5 as stated: for steam_flow_th > 0, a unit with valid geometry and a
\* provider returning positive density and specific heat, the returned v is
\* > 0 and theta_s and tau_s are finite and > 0.
C5_PositiveDynamics ==
    (/\ Evaluated /\ ret.steam_flow_th > 0
     /\ HasValidGeometry
     /\ IsPos(ResolvedVolume) /\ IsPos(ResolvedCp)) =>
        PositiveDynamics

\* C5 amended: the same when moreover the heat-transfer coefficient
\* U_W_m2K_low_load is > 0.
C5_PositiveDynamicsForPositiveU ==
    (/\ Evaluated /\ ret.steam_flow_th > 0
     /\ HasValidGeometry
     /\ unit.spec.U_W_m2K_low_load > 0
     /\ IsPos(ResolvedVolume) /\ IsPos(ResolvedCp)) =>
        PositiveDynamics

\* a small positive flow was evaluated on a valid unit and gave a result
C5_Witness ==
    /\ Evaluated /\ ret.steam_flow_th = 3
    /\ HasValidGeometry
    /\ unit.spec.U_W_m2K_low_load > 0
    /\ IsPos(ResolvedVolume) /\ IsPos(ResolvedCp)
    /\ ret.out.status = "returned"
    /\ IsPos(ret.out.value.theta_s)

\* tube_count * pi * (inner_diameter / 2)^2, the diameter in metres
FlowArea(tube_count, tube_id_mm) ==
    LET radius == Div(Frac(tube_id_mm, 1000), Num(2))
    IN  Mul(Num(tube_count), Mul(Pi, Mul(radius, radius)))

\* pi * outer_diameter * total_length * tube_count, the diameter in metres
SurfaceArea(tube_count, tube_od_mm, total_length_m) ==
    Mul(Mul(Mul(Pi, Frac(tube_od_mm, 1000)), Num(total_length_m)), Num(tube_count))

\* the geometry __post_init__ derives from the spec s with n times the panels
ScaledGeometry(s, n) ==
    DerivedGeometry([s EXCEPT !.n_panels = n * @])

MaxFactor ==
    3

\* C6: for a valid spec the geometry derived at construction is
\* a_total_m2 = tube_count * pi * (inner_diameter/2)^2 and outer_surface_m2
\* = pi * outer_diameter * total_length * tube_count with tube_count =
\* panels * tubes per panel; both are > 0 and n times the tube count gives
\* n times each.
C6_GeometryFormula ==
    (Constructed /\ ValidSpec(unit.spec)) =>
        LET s == unit.spec
            g == unit.geom
        IN  /\ g.total_tube_count = s.n_panels * s.tubes_per_panel
            /\ g.a_total_m2 = FlowArea(g.total_tube_count, s.tube_id_mm)
            /\ g.outer_surface_m2
                  = SurfaceArea(g.total_tube_count, s.tube_od_mm, s.total_length_m)
            /\ IsPos(g.a_total_m2) /\ IsPos(g.outer_surface_m2)
            /\ \A n \in 1..MaxFactor :
                  /\ ScaledGeometry(s, n).total_tube_count = n * g.total_tube_count
                  /\ ScaledGeometry(s, n).a_total_m2 = Mul(Num(n), g.a_total_m2)
                  /\ ScaledGeometry(s, n).outer_surface_m2
                        = Mul(Num(n), g.outer_surface_m2)

\* a valid unit was constructed from a file with twice the default panels
C6_Witness ==
    /\ Constructed /\ ValidSpec(unit.spec)
    /\ unit.spec.n_panels = 86
    /\ unit.geom.total_tube_count = 344

\* C10: in every state of a constructed unit the cached geometry is the
\* geometry derived from the current spec fields.
C10_CachedGeometryIsCurrent ==
    unit # NoUnit => unit.geom = DerivedGeometry(unit.spec)

=============================================================================
